---- MODULE Spec2Model ----
(***************************************************************************)
(* Model of main.py: a FastAPI application with two routes, GET / and      *)
(* POST /api/chat, in front of one process-wide chat session `chat`        *)
(* (google.generativeai ChatSession) created at import time.               *)
(*                                                                         *)
(* Both handlers are `async def` coroutines run on the server's single     *)
(* event loop.  handle_chat calls chat.send_message(...) synchronously     *)
(* (no await anywhere in its body), so the loop is occupied by a request   *)
(* from the moment its handler is entered until the handler returns.       *)
(*                                                                         *)
(* The chat session keeps its history as a committed list plus the last    *)
(* exchange (sent, received), which it folds into the list the next time   *)
(* the history is read; chat.history is the two together.                  *)
(***************************************************************************)
EXTENDS Integers, Sequences, FiniteSets, TLC

\* ---- bounds of the model ------------------------------------------------
MaxRequests == 2
MaxGets == 2

Requests == 1..MaxRequests

\* ---- input and outcome sets ---------------------------------------------
\* ChatRequest.message is any str; the empty string passes validation.
Messages == {"", "hello", "bye"}
\* texts the remote model may generate
Replies == {"hi there", "howdy"}
\* reasons for which the call to the collaborator raises
Causes == {"network", "auth", "quota", "blocked"}
\* the content of a response that carries no text part
NoText == "(no text part)"

StatusOK == 200
StatusError == 500
GenericDetail == "Failed to get a response from the AI model. Check server logs for details."
HtmlPage == "index.html"

NoResponse == [status |-> 0, body |-> "", ctype |-> ""]
NoPage == [status |-> 0, body |-> "", ctype |-> "", at |-> 0]
NoObject == [text |-> "", readable |-> FALSE]

VARIABLES
    phase,      \* "boot" while the module is imported, then "serving"; "down" if the process ended
    api_key,    \* whether GEMINI_API_KEY is set in the environment
    log,        \* what the process printed
    hist,       \* chat._history: the committed turns
    last,       \* chat._last_sent, chat._last_received: <<>> or the last exchange
    pc,         \* per request: "none", "pending", "calling", "returned", "raised", "done"
    msg,        \* per request: chat_request.message
    ctx,        \* per request: the contents handed to the remote model
    resp,       \* per request: the object chat.send_message returned
    exc,        \* per request: the exception in flight
    out,        \* per request: the HTTP response
    calls,      \* per request: number of chat.send_message invocations
    order,      \* request ids in the order their handlers were entered
    gets,       \* number of GET / served
    page        \* response of the last GET /, and how many chat handlers had run before it

vars == <<phase, api_key, log, hist, last, pc, msg, ctx, resp, exc, out, calls, order, gets, page>>

UserTurn(r, m) == [role |-> "user", text |-> m, req |-> r]
ModelTurn(r, t) == [role |-> "model", text |-> t, req |-> r]

\* chat.history: the committed turns followed by the exchange not yet folded in
ChatHistory == hist \o last

IsPrefix(s, t) == Len(s) <= Len(t) /\ SubSeq(t, 1, Len(s)) = s

\* ---- module import (lines 13-41) ----------------------------------------

\* chat = model.start_chat(history=[])
InitialHistory_Seeded == <<ModelTurn(0, "hi there")>>
InitialHistory == <<>>

\* The try block around genai.configure: a missing key is printed, nothing is
\* raised, and the import goes on to build the model, the chat and the app.
PhaseAfterConfig_Abort == IF api_key THEN "serving" ELSE "down"
PhaseAfterConfig == "serving"

Init ==
    /\ phase = "boot"
    /\ api_key \in BOOLEAN
    /\ log = {}
    /\ hist = <<>>
    /\ last = <<>>
    /\ pc = [r \in Requests |-> "none"]
    /\ msg = [r \in Requests |-> ""]
    /\ ctx = [r \in Requests |-> <<>>]
    /\ resp = [r \in Requests |-> NoObject]
    /\ exc = [r \in Requests |-> ""]
    /\ out = [r \in Requests |-> NoResponse]
    /\ calls = [r \in Requests |-> 0]
    /\ order = <<>>
    /\ gets = 0
    /\ page = NoPage

Startup ==
    /\ phase = "boot"
    /\ log' = IF api_key THEN log ELSE log \cup {[req |-> 0, what |-> "GEMINI_API_KEY not found"]}
    /\ phase' = PhaseAfterConfig
    /\ hist' = InitialHistory
    /\ last' = <<>>
    /\ UNCHANGED <<api_key, pc, msg, ctx, resp, exc, out, calls, order, gets, page>>

\* ---- the event loop -----------------------------------------------------

\* A request occupies the event loop from the entry of its handler to the
\* handler's return: chat.send_message at line 67 is a plain blocking call.
Blocking_Await(r) == pc[r] \in {"returned", "raised"}
Blocking(r) == pc[r] \in {"calling", "returned", "raised"}

LoopFreeFor(r) == \A q \in Requests \ {r} : ~Blocking(q)
LoopIdle == \A q \in Requests : ~Blocking(q)

\* a POST /api/chat with a valid body reaches the server
Arrive(m) ==
    /\ phase = "serving"
    /\ \E r \in Requests :
        /\ pc[r] = "none"
        /\ \A q \in Requests : q < r => pc[q] # "none"
        /\ pc' = [pc EXCEPT ![r] = "pending"]
        /\ msg' = [msg EXCEPT ![r] = m]
    /\ UNCHANGED <<phase, api_key, log, hist, last, ctx, resp, exc, out, calls, order, gets, page>>

\* ---- GET / (lines 50-55) ------------------------------------------------

ReadRoot_NewConversation ==
    /\ phase = "serving"
    /\ LoopIdle
    /\ gets < MaxGets
    /\ gets' = gets + 1
    /\ page' = [status |-> StatusOK, body |-> HtmlPage, ctype |-> "text/html", at |-> Len(order)]
    /\ hist' = <<>>
    /\ last' = <<>>
    /\ UNCHANGED <<phase, api_key, log, pc, msg, ctx, resp, exc, out, calls, order>>

read_root ==
    /\ phase = "serving"
    /\ LoopIdle
    /\ gets < MaxGets
    /\ gets' = gets + 1
    /\ page' = [status |-> StatusOK, body |-> HtmlPage, ctype |-> "text/html", at |-> Len(order)]
    /\ UNCHANGED <<phase, api_key, log, hist, last, pc, msg, ctx, resp, exc, out, calls, order>>

\* ---- POST /api/chat (lines 57-74) ---------------------------------------

\* The contents chat.send_message hands to the remote model: the whole
\* history of the session followed by the new user turn.
Contents_Stateless(r) == <<UserTurn(r, msg[r])>>
Contents(r) == ChatHistory \o <<UserTurn(r, msg[r])>>

\* The handler is entered and runs up to the remote call inside
\* chat.send_message (line 67).  Empty content is rejected before anything
\* is read or sent.
Dispatch(r) ==
    /\ phase = "serving"
    /\ pc[r] = "pending"
    /\ LoopFreeFor(r)
    /\ calls' = [calls EXCEPT ![r] = @ + 1]
    /\ order' = Append(order, r)
    /\ IF msg[r] = ""
       THEN /\ pc' = [pc EXCEPT ![r] = "raised"]
            /\ exc' = [exc EXCEPT ![r] = "empty content"]
            /\ UNCHANGED <<hist, last, ctx>>
       ELSE /\ pc' = [pc EXCEPT ![r] = "calling"]
            /\ hist' = ChatHistory
            /\ last' = <<>>
            /\ ctx' = [ctx EXCEPT ![r] = Contents(r)]
            /\ UNCHANGED exc
    /\ UNCHANGED <<phase, api_key, log, msg, resp, out, gets, page>>

\* The remote call raises: nothing of the exchange is kept by the session.
SendRaises(r, c) ==
    /\ pc[r] = "calling"
    /\ LoopFreeFor(r)
    /\ api_key \/ c = "auth"
    /\ pc' = [pc EXCEPT ![r] = "raised"]
    /\ exc' = [exc EXCEPT ![r] = c]
    /\ UNCHANGED <<phase, api_key, log, hist, last, msg, ctx, resp, out, calls, order, gets, page>>

\* The remote call answers: the session records the exchange and
\* chat.send_message returns the response object.  The response either
\* carries the generated text t or has no text part.
SendReturns(r, t, readable) ==
    /\ pc[r] = "calling"
    /\ LoopFreeFor(r)
    /\ api_key
    /\ last' = <<UserTurn(r, msg[r]), ModelTurn(r, IF readable THEN t ELSE NoText)>>
    /\ resp' = [resp EXCEPT ![r] = [text |-> IF readable THEN t ELSE NoText, readable |-> readable]]
    /\ pc' = [pc EXCEPT ![r] = "returned"]
    /\ UNCHANGED <<phase, api_key, log, hist, msg, ctx, exc, out, calls, order, gets, page>>

\* return {"reply": response.text}
ReplyBody_Echo(r) == msg[r]
ReplyBody(r) == resp[r].text

\* Line 70: response.text is read; it raises when there is no text part.
Reply(r) ==
    /\ pc[r] = "returned"
    /\ LoopFreeFor(r)
    /\ IF resp[r].readable
       THEN /\ out' = [out EXCEPT ![r] = [status |-> StatusOK, body |-> ReplyBody(r), ctype |-> "application/json"]]
            /\ pc' = [pc EXCEPT ![r] = "done"]
            /\ UNCHANGED exc
       ELSE /\ exc' = [exc EXCEPT ![r] = "no text"]
            /\ pc' = [pc EXCEPT ![r] = "raised"]
            /\ UNCHANGED out
    /\ UNCHANGED <<phase, api_key, log, hist, last, msg, ctx, resp, calls, order, gets, page>>

\* HTTPException(status_code=500, detail="Failed to get a response ...")
ErrorDetail_Leaky(e) == e
ErrorDetail(e) == GenericDetail

\* what the except clause leaves of the chat session: it does not touch it
ExceptHist_Reset == InitialHistory
ExceptHist == hist
ExceptLast_Rewind == <<>>
ExceptLast == last

\* where the except clause leaves the request: it raises, the request is over
ExceptPc_Retry(r) == IF calls[r] < 2 THEN "pending" ELSE "done"
ExceptPc(r) == "done"

\* Lines 71-74: the exception is printed and turned into the HTTP 500.
Except(r) ==
    /\ pc[r] = "raised"
    /\ LoopFreeFor(r)
    /\ log' = log \cup {[req |-> r, what |-> exc[r]]}
    /\ out' = [out EXCEPT ![r] = [status |-> StatusError, body |-> ErrorDetail(exc[r]), ctype |-> "application/json"]]
    /\ pc' = [pc EXCEPT ![r] = ExceptPc(r)]
    /\ hist' = ExceptHist
    /\ last' = ExceptLast
    /\ UNCHANGED <<phase, api_key, msg, ctx, resp, exc, calls, order, gets, page>>

Next ==
    \/ Startup
    \/ \E m \in Messages : Arrive(m)
    \/ read_root
    \/ \E r \in Requests : Dispatch(r)
    \/ \E r \in Requests, c \in Causes : SendRaises(r, c)
    \/ \E r \in Requests, t \in Replies, b \in BOOLEAN : SendReturns(r, t, b)
    \/ \E r \in Requests : Reply(r)
    \/ \E r \in Requests : Except(r)

Spec == Init /\ [][Next]_vars

\* ---- vocabulary of the properties ---------------------------------------

Succeeded(r) == pc[r] = "done" /\ out[r].status = StatusOK
Failed(r) == pc[r] = "done" /\ out[r].status # StatusOK
InHandler(r) == pc[r] \in {"calling", "returned", "raised"}
Pos(r) == CHOOSE i \in 1..Len(order) : order[i] = r
Called(r) == \E i \in 1..Len(order) : order[i] = r
HasTurn(r) == \E i \in 1..Len(ChatHistory) : ChatHistory[i].req = r
PairAt(i, r, t) ==
    /\ i + 1 <= Len(ChatHistory)
    /\ ChatHistory[i] = UserTurn(r, msg[r])
    /\ ChatHistory[i + 1] = ModelTurn(r, t)

\* C1: when every call made so far has succeeded, N of them, the history
\* holds exactly 2N turns: turn 2k-1 is the message of the k-th call and
\* turn 2k is the reply returned to the k-th call.
C1_TwoTurnsPerCall ==
    (\A k \in 1..Len(order) : Succeeded(order[k])) =>
        /\ Len(ChatHistory) = 2 * Len(order)
        /\ \A k \in 1..Len(order) : PairAt(2 * k - 1, order[k], out[order[k]].body)

C1_Witness ==
    /\ Len(order) = 2
    /\ \A k \in 1..Len(order) : Succeeded(order[k])
    /\ Len(ChatHistory) = 4

\* C2: the history only grows: across every step, whatever the request and
\* whether it succeeds or fails, the history before the step is a prefix of
\* the history after it.
C2_AppendOnly == [][IsPrefix(ChatHistory, ChatHistory')]_vars

C2_Witness ==
    /\ gets > 0
    /\ \E r, q \in Requests :
        /\ Succeeded(r) /\ Failed(q)
        /\ Pos(r) < Pos(q)
        /\ PairAt(1, r, out[r].body)

\* C3: a request in which anything failed ends with status 500 and the one
\* fixed detail string, whatever the cause; the cause is only in the log;
\* the process is still serving.
C3_GenericError ==
    \A r \in Requests :
        (pc[r] = "done" /\ exc[r] # "") =>
            /\ out[r] = [status |-> StatusError, body |-> GenericDetail, ctype |-> "application/json"]
            /\ out[r].body # exc[r]
            /\ [req |-> r, what |-> exc[r]] \in log
            /\ phase = "serving"

C3_Witness ==
    \E r, q \in Requests :
        /\ Failed(r) /\ exc[r] = "no text"
        /\ Succeeded(q)
        /\ Pos(r) < Pos(q)

\* C4: the step that turns a failure into the 500 response leaves the chat
\* session exactly as it found it, and afterwards the history holds a turn of
\* the failed request only if chat.send_message had returned for it.
C4_NoPartialState ==
    [][\A r \in Requests :
          (pc[r] = "raised" /\ pc'[r] = "done") =>
              /\ hist' = hist
              /\ last' = last
              /\ (\E i \in 1..Len(ChatHistory') : ChatHistory'[i].req = r) <=> (resp[r] # NoObject)
      ]_vars

C4_Witness ==
    \E r, q \in Requests :
        /\ Failed(r) /\ exc[r] = "no text" /\ HasTurn(r)
        /\ Failed(q) /\ exc[q] = "quota" /\ ~HasTurn(q)

\* C5: a request that succeeded had a non-empty message and carries status
\* 200 with, as reply, the text the collaborator generated for that request:
\* the text of the model turn recorded right after the request's user turn.
C5_ReplyIsGeneratedText ==
    \A r \in Requests :
        Succeeded(r) =>
            /\ msg[r] # ""
            /\ out[r].ctype = "application/json"
            /\ out[r].body \in Replies
            /\ ctx[r][Len(ctx[r])] = UserTurn(r, msg[r])
            /\ \E i \in 1..Len(ChatHistory) : PairAt(i, r, out[r].body)

C5_Witness ==
    \E r \in Requests : Succeeded(r) /\ msg[r] = "hello" /\ out[r].body = "hi there"

\* C6: the contents sent for a call are the whole history at that moment
\* followed by the new user turn, so they hold both turns of every earlier
\* successful call; two successful calls with the same message leave two
\* separate pairs of turns.
C6_ContextAccumulates ==
    /\ \A q \in Requests :
        ctx[q] # <<>> =>
            /\ ctx[q][Len(ctx[q])] = UserTurn(q, msg[q])
            /\ IsPrefix(SubSeq(ctx[q], 1, Len(ctx[q]) - 1), ChatHistory)
            /\ \A r \in Requests :
                (Succeeded(r) /\ Pos(r) < Pos(q)) =>
                    \E i \in 1..(Len(ctx[q]) - 2) :
                        /\ ctx[q][i] = UserTurn(r, msg[r])
                        /\ ctx[q][i + 1] = ModelTurn(r, out[r].body)
    /\ \A r, q \in Requests :
        (Succeeded(r) /\ Succeeded(q) /\ r # q /\ msg[r] = msg[q]) =>
            \E i, j \in 1..Len(ChatHistory) :
                /\ i + 1 < j \/ j + 1 < i
                /\ PairAt(i, r, out[r].body)
                /\ PairAt(j, q, out[q].body)

C6_Witness ==
    \E r, q \in Requests :
        /\ Succeeded(r) /\ Succeeded(q) /\ r # q
        /\ msg[r] = "hello" /\ msg[q] = "hello"
        /\ out[r].body # out[q].body
        /\ Len(ctx[q]) = 3

\* C7: every GET / is answered 200 with the HTML page and leaves the chat
\* session as it was.
C7_RootServesPage ==
    [][gets' # gets =>
          /\ page'.status = StatusOK
          /\ page'.ctype = "text/html"
          /\ page'.body = HtmlPage
          /\ hist' = hist
          /\ last' = last
      ]_vars

C7_Witness ==
    /\ page.status = StatusOK
    /\ page.at = 2
    /\ ChatHistory # <<>>
    /\ \E r, q \in Requests : Succeeded(r) /\ Failed(q)

\* C8: without GEMINI_API_KEY the import prints the problem and completes,
\* requests are served, and every chat request ends as the generic 500.
C8_MissingKeyNotFatal ==
    ~api_key =>
        /\ phase \in {"boot", "serving"}
        /\ phase = "serving" => [req |-> 0, what |-> "GEMINI_API_KEY not found"] \in log
        /\ \A r \in Requests :
            pc[r] = "done" =>
                /\ out[r].status = StatusError
                /\ out[r].body = GenericDetail
                /\ ~HasTurn(r)

C8_Witness ==
    /\ ~api_key
    /\ phase = "serving"
    /\ \E r \in Requests : Called(r) /\ Pos(r) = 1 /\ Failed(r) /\ exc[r] = "auth"

\* C9 as stated: a request waiting for the collaborator has given up the
\* event loop, so a pending request can be started meanwhile.
C9_SuspendsAtCall ==
    \A r, q \in Requests :
        (pc[r] = "calling" /\ pc[q] = "pending") => ENABLED Dispatch(q)

\* C9 amended: a handler runs from entry to return without giving up the
\* loop, so at most one request is inside handle_chat, and the two turns of
\* every exchange the session recorded are adjacent, in handler order.
C9_NoInterleaving ==
    /\ \A r, q \in Requests : (InHandler(r) /\ InHandler(q)) => r = q
    /\ \A r \in Requests : ENABLED Dispatch(r) => \A q \in Requests : ~InHandler(q)
    /\ \A r \in Requests :
        resp[r] # NoObject => \E i \in 1..Len(ChatHistory) : PairAt(i, r, resp[r].text)
    /\ \A i, j \in 1..Len(ChatHistory) :
        i < j => Pos(ChatHistory[i].req) <= Pos(ChatHistory[j].req)

C9_Witness ==
    \E r, q \in Requests :
        /\ Succeeded(r) /\ Succeeded(q)
        /\ r > q /\ Pos(r) < Pos(q)
        /\ PairAt(1, r, out[r].body) /\ PairAt(3, q, out[q].body)

\* C10: chat.send_message is invoked exactly once for every request that
\* entered its handler and never for one that did not; a failed request
\* stays failed; and whatever failed before, a pending request can be
\* started when the loop is free and a call in progress can still succeed.
C10_ExactlyOneCall ==
    /\ \A r \in Requests :
        /\ calls[r] = (IF pc[r] \in {"none", "pending"} THEN 0 ELSE 1)
        /\ Cardinality({i \in 1..Len(order) : order[i] = r}) = calls[r]
    /\ \A q \in Requests :
        /\ (pc[q] = "pending" /\ phase = "serving" /\ \A r \in Requests : ~InHandler(r))
              => ENABLED Dispatch(q)
        /\ (pc[q] = "calling" /\ api_key)
              => \A t \in Replies : ENABLED SendReturns(q, t, TRUE)

C10_Witness ==
    \E r, q \in Requests :
        /\ Failed(r) /\ exc[r] = "network" /\ calls[r] = 1
        /\ Succeeded(q) /\ calls[q] = 1
        /\ Pos(r) < Pos(q)

====
